---- MODULE Spec2Model ----
(***************************************************************************)
(* Model of src/detach/IosUtils.js: certificate validation, export-method  *)
(* resolution, entitlements generation, IPA build and IPA resigning.       *)
(*                                                                         *)
(* One call of one exported function is followed from its invocation to    *)
(* its return or throw.  Every action is the code that runs between two    *)
(* awaits: it consumes the outcome of the awaited operation and runs up to *)
(* the next await (or to the end of the function).                         *)
(*                                                                         *)
(* Text is a sequence of one-character strings, a path is a sequence of    *)
(* segments, a JavaScript value is a record tagged with its type.          *)
(***************************************************************************)
EXTENDS Naturals, Integers, Sequences, FiniteSets, TLC

VARIABLES
    fn,         \* the exported function being executed ("none" before the call)
    pc,         \* position inside the function: the await it is suspended on
    args,       \* the arguments of the call
    local,      \* the local variables of the function
    calls,      \* log of external operations started (fs, glob, spawned tools)
    settled,    \* settled[i] is how calls[i] ended, once it has
    genFile,    \* content of the file at generatedEntitlementsPath
    result      \* how the call ended: none / return / throw

vars == <<fn, pc, args, local, calls, settled, genFile, result>>

----------------------------------------------------------------------------
(* Bounds *)

FingerprintLen == 2     \* length of a fingerprint (40 hex characters in the program)
MaxListingLen == 4      \* length of the text printed by `security find-identity`
MaxCertBags == 2        \* certificate bags in a PKCS#12 container
MaxDevices == 2         \* entries of ProvisionedDevices
MaxMatches == 2         \* files matching the entitlements pattern
MaxProfileKeys == 1     \* keys of plistData.Entitlements
MaxArchiveKeys == 1     \* keys of the parsed archive entitlements

----------------------------------------------------------------------------
(* Generic helpers *)

EmptyMap == [k \in {} |-> ""]

NoArgs == [none |-> TRUE]

NoResult == [kind |-> "none", value |-> <<>>]

Return(v) == [kind |-> "return", value |-> v]

Throw(msg) == [kind |-> "throw", value |-> msg]

\* all sequences over S of length at most n
RECURSIVE SeqsUpTo(_, _)
SeqsUpTo(S, n) ==
    IF n = 0 THEN {<<>>}
    ELSE LET prev == SeqsUpTo(S, n - 1)
         IN  prev \cup {Append(s, x) : s \in prev, x \in S}

\* all subsets of K with at most n elements
RECURSIVE SmallSubsets(_, _)
SmallSubsets(K, n) ==
    IF n = 0 THEN {{}}
    ELSE LET prev == SmallSubsets(K, n - 1)
         IN  prev \cup {S \cup {k} : S \in prev, k \in K}

\* a one-argument command-line word
Word(s) == <<s>>

Call(cmd, argv) == [cmd |-> cmd, argv |-> argv]

\* the outcome of an awaited external operation
Outcomes == {"ok", "error"}

----------------------------------------------------------------------------
(* String.prototype.indexOf and friends *)

\* haystack.indexOf(needle): first 0-based position of needle, -1 when absent
indexOf(haystack, needle) ==
    LET starts == {i \in 0..(Len(haystack) - Len(needle)) :
                      SubSeq(haystack, i + 1, i + Len(needle)) = needle}
    IN  IF starts = {} THEN -1
        ELSE CHOOSE i \in starts : \A j \in starts : i <= j

toUpperCase(s) ==
    [i \in 1..Len(s) |->
        CASE s[i] = "a" -> "A"
          [] s[i] = "b" -> "B"
          [] OTHER -> s[i]]

----------------------------------------------------------------------------
(* path.dirname / path.basename on a path given as its segments *)

dirname(p) == IF Len(p) <= 1 THEN <<".">> ELSE SubSeq(p, 1, Len(p) - 1)

basename(p) == IF p = <<>> THEN <<>> ELSE <<p[Len(p)]>>

----------------------------------------------------------------------------
(* genCertFingerprint *)

Certs == {1, 2}

Passwords == {"", "pw"}

\* a PKCS#12 container: well-formed or not, its password, its certificate bags
Containers ==
    [wellFormed : BOOLEAN, password : Passwords,
     certBags : SeqsUpTo(Certs, MaxCertBags)]

\* the values a caller may pass as certPassword
PasswordArgs ==
    {[type |-> "undefined", str |-> ""]} \cup
    {[type |-> "string", str |-> s] : s \in Passwords}

\* String(passwordRaw || '')
passwordOf(passwordRaw) ==
    IF passwordRaw.type = "undefined" \/ passwordRaw.str = "" THEN ""
    ELSE passwordRaw.str

\* forge.md.sha1 ... digest().toHex(): lower-case hex digits of the digest
sha1Hex(cert) ==
    [i \in 1..FingerprintLen |-> IF (i + cert) % 2 = 0 THEN "a" ELSE "b"]

MsgOnlyStringsAndBuffers == <<"genCertFingerprint only takes strings and buffers.">>
MsgDecode == <<"forge: PKCS#12 could not be decoded">>
MsgNoCertBag == <<"genCertFingerprint: couldn't find cert bag">>

\* p12Buffer is [type, p12]; the result is a Return or a Throw
genCertFingerprint(p12Buffer, passwordRaw) ==
    IF p12Buffer.type \notin {"buffer", "string"}
    THEN Throw(MsgOnlyStringsAndBuffers)
    ELSE LET password == passwordOf(passwordRaw)
             p12 == p12Buffer.p12
         IN  IF ~p12.wellFormed \/ p12.password # password
             THEN Throw(MsgDecode)
             ELSE IF p12.certBags = <<>>
             THEN Throw(MsgNoCertBag)
             ELSE Return(toUpperCase(sha1Hex(p12.certBags[1])))

----------------------------------------------------------------------------
(* ensureCertificateValid *)

CertPaths == {<<"certs", "dist.p12">>}

TeamIDs == {"TEAM1"}

ListingChars == {"A", "B", "a"}

Listings == SeqsUpTo(ListingChars, MaxListingLen)

MsgReadFile == <<"ENOENT">>
MsgSpawn == <<"spawn: process exited with non-zero code">>

\* `codesign ident not present in find-identity: ${fingerprint}\n${identities}`
notPresentMessage(fingerprint, identities) ==
    <<"codesign ident not present in find-identity: ">> \o fingerprint
        \o <<"\n">> \o identities

\* variant: the listing must be the fingerprint itself
isValid_exact(identities, fingerprint) == identities = fingerprint

\* identities.indexOf(fingerprint) !== -1
isValid(identities, fingerprint) == indexOf(identities, fingerprint) # -1

\* findIdentitiesByTeamID: the command it spawns
findIdentitiesCall(teamID) ==
    Call("security", <<Word("find-identity"), Word("-v"), Word("-s"),
                       <<"(", teamID, ")">>>>)

ensureCertificateValid_call ==
    /\ pc = "idle"
    /\ \E certPath \in CertPaths, certPassword \in PasswordArgs, teamID \in TeamIDs :
          args' = [certPath |-> certPath, certPassword |-> certPassword,
                   teamID |-> teamID]
    /\ fn' = "ensureCertificateValid"
    /\ pc' = "readFile"
    /\ calls' = Append(calls, Call("fs.readFile", <<args'.certPath>>))
    /\ UNCHANGED <<local, settled, genFile, result>>

\* variant: the identity lookup is started before the fingerprint is known
ensureCertificateValid_fingerprint_lookupFirst(outcome, p12) ==
    LET fp == genCertFingerprint([type |-> "buffer", p12 |-> p12],
                                 args.certPassword)
    IN  IF outcome = "error"
        THEN /\ result' = Throw(MsgReadFile)
             /\ pc' = "done"
             /\ UNCHANGED <<local, calls>>
        ELSE IF fp.kind = "throw"
        THEN /\ local' = [certData |-> p12]
             /\ calls' = Append(calls, findIdentitiesCall(args.teamID))
             /\ result' = fp
             /\ pc' = "done"
        ELSE /\ local' = [certData |-> p12, fingerprint |-> fp.value]
             /\ calls' = Append(calls, findIdentitiesCall(args.teamID))
             /\ pc' = "findIdentities"
             /\ UNCHANGED result

\* fs.readFile settles; genCertFingerprint runs; findIdentitiesByTeamID spawns
ensureCertificateValid_fingerprint(outcome, p12) ==
    LET fp == genCertFingerprint([type |-> "buffer", p12 |-> p12],
                                 args.certPassword)
    IN  IF outcome = "error"
        THEN /\ result' = Throw(MsgReadFile)
             /\ pc' = "done"
             /\ UNCHANGED <<local, calls>>
        ELSE IF fp.kind = "throw"
        THEN /\ local' = [certData |-> p12]
             /\ result' = fp
             /\ pc' = "done"
             /\ UNCHANGED calls
        ELSE /\ local' = [certData |-> p12, fingerprint |-> fp.value]
             /\ calls' = Append(calls, findIdentitiesCall(args.teamID))
             /\ pc' = "findIdentities"
             /\ UNCHANGED result

ensureCertificateValid_readFileDone ==
    /\ fn = "ensureCertificateValid"
    /\ pc = "readFile"
    /\ \E outcome \in Outcomes, p12 \in Containers :
          /\ settled' = Append(settled, outcome)
          /\ ensureCertificateValid_fingerprint(outcome, p12)
    /\ UNCHANGED <<fn, args, genFile>>

\* the spawned `security` settles; the listing is output.join('')
ensureCertificateValid_check(outcome, identities) ==
    IF outcome = "error"
    THEN /\ result' = Throw(MsgSpawn)
         /\ UNCHANGED local
    ELSE /\ local' = [certData |-> local.certData,
                       fingerprint |-> local.fingerprint,
                       identities |-> identities]
         /\ result' = IF isValid(identities, local.fingerprint)
                      THEN Return(local.fingerprint)
                      ELSE Throw(notPresentMessage(local.fingerprint, identities))

ensureCertificateValid_findIdentitiesDone ==
    /\ fn = "ensureCertificateValid"
    /\ pc = "findIdentities"
    /\ \E outcome \in Outcomes, identities \in Listings :
          /\ settled' = Append(settled, outcome)
          /\ ensureCertificateValid_check(outcome, identities)
    /\ pc' = "done"
    /\ UNCHANGED <<fn, args, calls, genFile>>

----------------------------------------------------------------------------
(* resolveExportMethod *)

\* a JavaScript value, as far as truthiness and === true can tell:
\* n is the truth value of a boolean, the value of a number,
\* the length of a string or of an array
JsValue(type, n) == [type |-> type, n |-> n]

Undefined == JsValue("undefined", 0)

truthy(v) ==
    CASE v.type = "undefined" -> FALSE
      [] v.type = "null" -> FALSE
      [] v.type = "boolean" -> v.n = 1
      [] v.type = "number" -> v.n # 0
      [] v.type = "string" -> v.n > 0
      [] OTHER -> TRUE          \* arrays and objects, empty ones included

\* variant: any truthy value counts
isTrue_truthy(v) == truthy(v)

\* v === true
isTrue(v) == v.type = "boolean" /\ v.n = 1

\* the values a decoded profile may hold for ProvisionedDevices
DeviceValues ==
    {Undefined, JsValue("null", 0), JsValue("boolean", 0), JsValue("boolean", 1),
     JsValue("number", 0), JsValue("string", 0), JsValue("string", 1)}
        \cup {JsValue("array", n) : n \in 0..MaxDevices}

\* the values a decoded profile may hold for ProvisionsAllDevices
AllDevicesValues ==
    {Undefined, JsValue("null", 0), JsValue("boolean", 0), JsValue("boolean", 1),
     JsValue("number", 0), JsValue("number", 1),
     JsValue("string", 0), JsValue("string", 1), JsValue("array", 0)}

\* variant: rule 1 asks for a list with at least one entry
resolveExportMethod_nonEmptyList(plistData) ==
    IF plistData.ProvisionedDevices.type = "array"
           /\ plistData.ProvisionedDevices.n > 0 THEN "ad-hoc"
    ELSE IF isTrue(plistData.ProvisionsAllDevices) THEN "enterprise"
    ELSE "app-store"

resolveExportMethod(plistData) ==
    IF truthy(plistData.ProvisionedDevices) THEN "ad-hoc"
    ELSE IF isTrue(plistData.ProvisionsAllDevices) THEN "enterprise"
    ELSE "app-store"

resolveExportMethod_call ==
    /\ pc = "idle"
    /\ \E devices \in DeviceValues, allDevices \in AllDevicesValues :
          /\ args' = [plistData |-> [ProvisionedDevices |-> devices,
                                     ProvisionsAllDevices |-> allDevices]]
          /\ result' = Return(resolveExportMethod(args'.plistData))
    /\ fn' = "resolveExportMethod"
    /\ pc' = "done"
    /\ UNCHANGED <<local, calls, settled, genFile>>

----------------------------------------------------------------------------
(* runFastlane, buildIPA, resignIPA *)

IpaPaths == {<<"out", "app.ipa">>, <<"app.ipa">>}
SourceIpaPath == <<"build", "unsigned.ipa">>
ArchivePath == <<"build", "app.xcarchive">>
ExportOptionsPlistPath == <<"build", "exportOptions.plist">>
EntitlementsPath == <<"build", "generated.entitlements">>
ProvisioningProfilePath == <<"build", "profile.mobileprovision">>
KeychainPath == <<"build", "signing.keychain">>
Workspace == <<"ios", "app.xcworkspace">>
CodeSignIdentity == <<"A", "B">>

MsgNotAFunction == <<"TypeError: path.Dir is not a function">>

\* runFastlane: the command it spawns
runFastlane(fastlaneArgs) == Call("fastlane", fastlaneArgs)

\* path.Dir: node's path module has no member Dir, so calling it throws
pathDir(p) == Throw(MsgNotAFunction)

xcodebuildCall(exportPath) ==
    Call("xcodebuild",
         <<Word("-exportArchive"), Word("-archivePath"), ArchivePath,
           Word("-exportOptionsPlist"), ExportOptionsPlistPath,
           Word("-exportPath"), exportPath,
           <<"OTHER_CODE_SIGN_FLAGS=--keychain">> \o KeychainPath>>)

gymArgs(ipaPath, exportMethod) ==
    <<Word("gym"), Word("-n"), basename(ipaPath),
      Word("--workspace"), Workspace, Word("--scheme"), Word("ExpoKitApp"),
      Word("--archive_path"), ArchivePath,
      Word("--skip_build_archive"), Word("true"),
      Word("-i"), CodeSignIdentity,
      Word("--export_options"), ExportOptionsPlistPath,
      Word("--export_method"), Word(exportMethod),
      Word("--export_xcargs"), <<"OTHER_CODE_SIGN_FLAGS=--keychain">> \o KeychainPath,
      Word("-o"), dirname(ipaPath), Word("--verbose")>>

ExportMethods == {"ad-hoc", "enterprise", "app-store"}

\* the body of buildIPA up to its await
buildIPA_body(ipaPath, exportMethod, client) ==
    IF client
    THEN LET exportPath == pathDir(ipaPath)
         IN  IF exportPath.kind = "throw"
             THEN /\ result' = exportPath
                  /\ pc' = "done"
                  /\ UNCHANGED calls
             ELSE /\ calls' = Append(calls, xcodebuildCall(exportPath.value))
                  /\ pc' = "export"
                  /\ UNCHANGED result
    ELSE /\ calls' = Append(calls, runFastlane(gymArgs(ipaPath, exportMethod)))
         /\ pc' = "export"
         /\ UNCHANGED result

buildIPA_call ==
    /\ pc = "idle"
    /\ \E ipaPath \in IpaPaths, exportMethod \in ExportMethods, client \in BOOLEAN :
          /\ args' = [ipaPath |-> ipaPath, exportMethod |-> exportMethod,
                      client |-> client]
          /\ buildIPA_body(ipaPath, exportMethod, client)
    /\ fn' = "buildIPA"
    /\ UNCHANGED <<local, settled, genFile>>

buildIPA_exportDone ==
    /\ fn = "buildIPA"
    /\ pc = "export"
    /\ \E outcome \in Outcomes :
          /\ settled' = Append(settled, outcome)
          /\ result' = IF outcome = "ok" THEN Return(<<>>) ELSE Throw(MsgSpawn)
    /\ pc' = "done"
    /\ UNCHANGED <<fn, args, local, calls, genFile>>

cpCall(sourceIpaPath, destIpaPath) ==
    Call("cp", <<Word("-rf"), sourceIpaPath, destIpaPath>>)

sighArgs(destIpaPath) ==
    <<Word("sigh"), Word("resign"), Word("--verbose"),
      Word("--entitlements"), EntitlementsPath,
      Word("--signing_identity"), CodeSignIdentity,
      Word("--keychain_path"), KeychainPath,
      Word("--provisioning_profile"), ProvisioningProfilePath,
      destIpaPath>>

resignIPA_call ==
    /\ pc = "idle"
    /\ \E destIpaPath \in IpaPaths :
          /\ args' = [sourceIpaPath |-> SourceIpaPath, destIpaPath |-> destIpaPath]
          /\ calls' = Append(calls, cpCall(SourceIpaPath, destIpaPath))
    /\ fn' = "resignIPA"
    /\ pc' = "cp"
    /\ UNCHANGED <<local, settled, genFile, result>>

\* variant: the outcome of `cp` is not looked at
resignIPA_afterCp_ignoreFailure(outcome) ==
    /\ calls' = Append(calls, runFastlane(sighArgs(args.destIpaPath)))
    /\ pc' = "resign"
    /\ UNCHANGED result

\* `cp` settles: a failure throws, a success goes on to fastlane sigh resign
resignIPA_afterCp(outcome) ==
    IF outcome = "error"
    THEN /\ result' = Throw(MsgSpawn)
         /\ pc' = "done"
         /\ UNCHANGED calls
    ELSE /\ calls' = Append(calls, runFastlane(sighArgs(args.destIpaPath)))
         /\ pc' = "resign"
         /\ UNCHANGED result

resignIPA_cpDone ==
    /\ fn = "resignIPA"
    /\ pc = "cp"
    /\ \E outcome \in Outcomes :
          /\ settled' = Append(settled, outcome)
          /\ resignIPA_afterCp(outcome)
    /\ UNCHANGED <<fn, args, local, genFile>>

resignIPA_resignDone ==
    /\ fn = "resignIPA"
    /\ pc = "resign"
    /\ \E outcome \in Outcomes :
          /\ settled' = Append(settled, outcome)
          /\ result' = IF outcome = "ok" THEN Return(<<>>) ELSE Throw(MsgSpawn)
    /\ pc' = "done"
    /\ UNCHANGED <<fn, args, local, calls, genFile>>

----------------------------------------------------------------------------
(* createEntitlementsFile *)

entitlementTransferRules ==
    <<"com.apple.developer.associated-domains",
      "com.apple.developer.healthkit",
      "com.apple.developer.homekit",
      "com.apple.developer.icloud-container-identifiers",
      "com.apple.developer.icloud-services",
      "com.apple.developer.in-app-payments",
      "com.apple.developer.networking.vpn.api",
      "com.apple.developer.ubiquity-container-identifiers",
      "com.apple.developer.ubiquity-kvstore-identifier",
      "com.apple.external-accessory.wireless-configuration",
      "com.apple.security.application-groups",
      "inter-app-audio",
      "keychain-access-groups">>

blacklistedEntitlementKeys ==
    <<"com.apple.developer.icloud-container-development-container-identifiers",
      "com.apple.developer.icloud-container-environment",
      "com.apple.developer.icloud-container-identifiers",
      "com.apple.developer.icloud-services",
      "com.apple.developer.restricted-resource-mode",
      "com.apple.developer.ubiquity-container-identifiers",
      "com.apple.developer.ubiquity-kvstore-identifier",
      "inter-app-audio",
      "com.apple.developer.homekit",
      "com.apple.developer.healthkit",
      "com.apple.developer.in-app-payments",
      "com.apple.developer.maps",
      "com.apple.external-accessory.wireless-configuration">>

Range(seq) == {seq[i] : i \in DOMAIN seq}

\* entitlement keys that are in neither list
OtherKeys == {"application-identifier", "get-task-allow"}

EntitlementKeys ==
    Range(entitlementTransferRules) \cup Range(blacklistedEntitlementKeys)
        \cup OtherKeys

\* plist values, opaque to the merge
PlistValues == {"v1", "v2"}

\* the index keys "0", "1", ... of an array or a string of length n
IndexKey(i) == CASE i = 0 -> "0" [] i = 1 -> "1" [] i = 2 -> "2" [] OTHER -> "3"

IndexKeys(n) == {IndexKey(i) : i \in 0..(n - 1)}

\* a JavaScript value with its own enumerable properties
JsObject(type, props) == [type |-> type, props |-> props]

Objects(maxKeys) ==
    {JsObject("object", props) :
        props \in UNION {[K -> PlistValues] : K \in SmallSubsets(EntitlementKeys, maxKeys)}}

Indexed(type, maxLen) ==
    {JsObject(type, props) :
        props \in UNION {[IndexKeys(n) -> PlistValues] : n \in 0..maxLen}}

\* what plistData.Entitlements may be
ProfileEntitlements ==
    Objects(MaxProfileKeys) \cup Indexed("array", MaxProfileKeys)
        \cup Indexed("string", MaxProfileKeys)
        \cup {JsObject("undefined", EmptyMap), JsObject("number", EmptyMap)}

\* what plist.parse may return for a well-formed document
ArchiveEntitlements ==
    Objects(MaxArchiveKeys) \cup Indexed("array", MaxArchiveKeys)
        \cup Indexed("string", MaxArchiveKeys)
        \cup {JsObject("number", EmptyMap)}

\* what the archive entitlements file may hold: a well-formed plist document,
\* or text that is no plist
ArchiveFiles ==
    {[wellFormed |-> TRUE, document |-> document] : document \in ArchiveEntitlements}
        \cup {[wellFormed |-> FALSE, document |-> JsObject("undefined", EmptyMap)]}

isMapping(v) == v.type = "object"

\* { ...value }: the own enumerable properties; none for undefined and numbers
spread(value) ==
    IF value.type \in {"object", "array", "string"} THEN value.props
    ELSE EmptyMap

\* `key in value` throws a TypeError when value is a primitive
inThrows(value) == value.type \notin {"object", "array"}

\* key in value, for an object or an array
in(key, value) == key \in DOMAIN value.props

\* variant: a value the profile already has is kept
assign_keepExisting(entitlements, rule, value) ==
    [k \in DOMAIN entitlements \cup {rule} |->
        IF k \in DOMAIN entitlements THEN entitlements[k] ELSE value]

\* entitlements[rule] = value
assign(entitlements, rule, value) ==
    [k \in DOMAIN entitlements \cup {rule} |->
        IF k = rule THEN value ELSE entitlements[k]]

\* entitlementTransferRules.forEach(rule => ...) over the rules still to visit
RECURSIVE transfer(_, _, _)
transfer(entitlements, archiveEntitlementsData, rules) ==
    IF rules = <<>> THEN entitlements
    ELSE LET rule == Head(rules)
             next == IF in(rule, archiveEntitlementsData)
                     THEN assign(entitlements, rule,
                                 archiveEntitlementsData.props[rule])
                     ELSE entitlements
         IN  transfer(next, archiveEntitlementsData, Tail(rules))

\* _.includes(blacklistedEntitlementKeys, key)
includes(list, key) == \E i \in DOMAIN list : list[i] = key

\* _.pickBy(entitlements, (val, key) => !_.includes(blacklistedEntitlementKeys, key))
pickNotBlacklisted(entitlements) ==
    [k \in {key \in DOMAIN entitlements :
               ~includes(blacklistedEntitlementKeys, key)} |-> entitlements[k]]

\* variant: the blacklist is applied to the profile before the transfer
generateEntitlements_blacklistFirst(profileEntitlements, archiveEntitlementsData) ==
    transfer(pickNotBlacklisted(spread(profileEntitlements)),
             archiveEntitlementsData, entitlementTransferRules)

\* lines 209-218: the generated entitlements
generateEntitlements(profileEntitlements, archiveEntitlementsData) ==
    pickNotBlacklisted(
        transfer(spread(profileEntitlements), archiveEntitlementsData,
                 entitlementTransferRules))

GeneratedEntitlementsPath == <<"build", "generated.entitlements">>

EntitlementsPattern ==
    ArchivePath \o <<"Products", "Applications", "ExpoKitApp.app", "*.entitlements">>

\* the paths glob may resolve to
MatchName(i) == IF i = 1 THEN "ExpoKitApp.entitlements" ELSE "Other.entitlements"

Matches(n) ==
    [i \in 1..n |->
        ArchivePath \o <<"Products", "Applications", "ExpoKitApp.app", MatchName(i)>>]

MsgGlob == <<"glob: EACCES">>
MsgNotFound == <<"Didn't find any generated entitlements file in archive.">>
MsgMoreThanOne == <<"Found more than one entitlements file.">>
MsgParse == <<"Error when parsing plist: ", "malformed document">>
MsgInOperator == <<"TypeError: Cannot use 'in' operator to search for a key">>
MsgWriteFile == <<"EACCES">>

createEntitlementsFile_call ==
    /\ pc = "idle"
    /\ \E entitlements \in ProfileEntitlements :
          args' = [generatedEntitlementsPath |-> GeneratedEntitlementsPath,
                   plistData |-> [Entitlements |-> entitlements],
                   archivePath |-> ArchivePath]
    /\ fn' = "createEntitlementsFile"
    /\ pc' = "glob"
    /\ calls' = Append(calls, Call("glob", <<EntitlementsPattern>>))
    /\ UNCHANGED <<local, settled, genFile, result>>

\* variant: with several matches the first one is taken
createEntitlementsFile_afterGlob_first(outcome, entitlementsPaths) ==
    IF outcome = "error"
    THEN /\ result' = Throw(MsgGlob)
         /\ pc' = "done"
         /\ UNCHANGED <<local, calls>>
    ELSE IF Len(entitlementsPaths) = 0
    THEN /\ local' = [entitlementsPaths |-> entitlementsPaths]
         /\ result' = Throw(MsgNotFound)
         /\ pc' = "done"
         /\ UNCHANGED calls
    ELSE /\ local' = [entitlementsPaths |-> entitlementsPaths,
                      archiveEntitlementsPath |-> entitlementsPaths[1]]
         /\ calls' = Append(calls, Call("fs.readFile", <<entitlementsPaths[1]>>))
         /\ pc' = "readFile"
         /\ UNCHANGED result

\* glob settles: lines 197-203
createEntitlementsFile_afterGlob(outcome, entitlementsPaths) ==
    IF outcome = "error"
    THEN /\ result' = Throw(MsgGlob)
         /\ pc' = "done"
         /\ UNCHANGED <<local, calls>>
    ELSE IF Len(entitlementsPaths) = 0
    THEN /\ local' = [entitlementsPaths |-> entitlementsPaths]
         /\ result' = Throw(MsgNotFound)
         /\ pc' = "done"
         /\ UNCHANGED calls
    ELSE IF Len(entitlementsPaths) # 1
    THEN /\ local' = [entitlementsPaths |-> entitlementsPaths]
         /\ result' = Throw(MsgMoreThanOne)
         /\ pc' = "done"
         /\ UNCHANGED calls
    ELSE /\ local' = [entitlementsPaths |-> entitlementsPaths,
                      archiveEntitlementsPath |-> entitlementsPaths[1]]
         /\ calls' = Append(calls, Call("fs.readFile", <<entitlementsPaths[1]>>))
         /\ pc' = "readFile"
         /\ UNCHANGED result

createEntitlementsFile_globDone ==
    /\ fn = "createEntitlementsFile"
    /\ pc = "glob"
    /\ \E outcome \in Outcomes, n \in 0..MaxMatches :
          /\ settled' = Append(settled, outcome)
          /\ createEntitlementsFile_afterGlob(outcome, Matches(n))
    /\ UNCHANGED <<fn, args, genFile>>

\* _.attempt(plist.parse, String(raw)): the document, or an Error
plistParse(raw) ==
    IF raw.wellFormed THEN Return(raw.document) ELSE Throw(MsgParse)

\* the archive entitlements file settles: lines 204-220
createEntitlementsFile_merge(outcome, raw) ==
    LET archiveEntitlementsData == plistParse(raw)
    IN  IF outcome = "error"
        THEN /\ result' = Throw(MsgReadFile)
             /\ pc' = "done"
             /\ UNCHANGED <<local, calls>>
        ELSE IF archiveEntitlementsData.kind = "throw"
        THEN /\ local' = [entitlementsPaths |-> local.entitlementsPaths,
                          archiveEntitlementsRaw |-> raw]
             /\ result' = archiveEntitlementsData
             /\ pc' = "done"
             /\ UNCHANGED calls
        ELSE IF inThrows(archiveEntitlementsData.value)
        THEN /\ local' = [entitlementsPaths |-> local.entitlementsPaths,
                          archiveEntitlementsRaw |-> raw,
                          archiveEntitlementsData |-> archiveEntitlementsData.value]
             /\ result' = Throw(MsgInOperator)
             /\ pc' = "done"
             /\ UNCHANGED calls
        ELSE /\ local' = [entitlementsPaths |-> local.entitlementsPaths,
                          archiveEntitlementsRaw |-> raw,
                          archiveEntitlementsData |-> archiveEntitlementsData.value,
                          generatedEntitlements |->
                              generateEntitlements(args.plistData.Entitlements,
                                                   archiveEntitlementsData.value)]
             /\ calls' = Append(calls,
                                Call("fs.writeFile", <<args.generatedEntitlementsPath>>))
             /\ pc' = "writeBuilt"
             /\ UNCHANGED result

createEntitlementsFile_readFileDone ==
    /\ fn = "createEntitlementsFile"
    /\ pc = "readFile"
    /\ \E outcome \in Outcomes, raw \in ArchiveFiles :
          /\ settled' = Append(settled, outcome)
          /\ createEntitlementsFile_merge(outcome, raw)
    /\ UNCHANGED <<fn, args, genFile>>

plistBuddyCall(generatedEntitlementsPath) ==
    Call("/usr/libexec/PlistBuddy",
         <<Word("-x"), Word("-c"), Word("Print"), generatedEntitlementsPath>>)

\* the first writeFile settles: lines 220-229
createEntitlementsFile_writeBuiltDone ==
    /\ fn = "createEntitlementsFile"
    /\ pc = "writeBuilt"
    /\ \E outcome \in Outcomes :
          /\ settled' = Append(settled, outcome)
          /\ IF outcome = "error"
             THEN /\ result' = Throw(MsgWriteFile)
                  /\ pc' = "done"
                  /\ UNCHANGED <<calls, genFile>>
             ELSE /\ genFile' = [written |-> TRUE, stage |-> "built",
                              data |-> local.generatedEntitlements]
                  /\ calls' = Append(calls, plistBuddyCall(args.generatedEntitlementsPath))
                  /\ pc' = "plistBuddy"
                  /\ UNCHANGED result
    /\ UNCHANGED <<fn, args, local>>

\* PlistBuddy settles: lines 230-233
createEntitlementsFile_plistBuddyDone ==
    /\ fn = "createEntitlementsFile"
    /\ pc = "plistBuddy"
    /\ \E outcome \in Outcomes :
          /\ settled' = Append(settled, outcome)
          /\ IF outcome = "error"
             THEN /\ result' = Throw(MsgSpawn)
                  /\ pc' = "done"
                  /\ UNCHANGED calls
             ELSE /\ calls' = Append(calls,
                                  Call("fs.writeFile", <<args.generatedEntitlementsPath>>))
                  /\ pc' = "writeReformatted"
                  /\ UNCHANGED result
    /\ UNCHANGED <<fn, args, local, genFile>>

\* the second writeFile settles: the function returns
createEntitlementsFile_writeReformattedDone ==
    /\ fn = "createEntitlementsFile"
    /\ pc = "writeReformatted"
    /\ \E outcome \in Outcomes :
          /\ settled' = Append(settled, outcome)
          /\ IF outcome = "error"
             THEN /\ result' = Throw(MsgWriteFile)
                  /\ UNCHANGED genFile
             ELSE /\ genFile' = [written |-> TRUE, stage |-> "reformatted",
                              data |-> genFile.data]
                  /\ result' = Return(<<>>)
    /\ pc' = "done"
    /\ UNCHANGED <<fn, args, local, calls>>

----------------------------------------------------------------------------

Init ==
    /\ fn = "none"
    /\ pc = "idle"
    /\ args = NoArgs
    /\ local = NoArgs
    /\ calls = <<>>
    /\ settled = <<>>
    /\ genFile = [written |-> FALSE, stage |-> "none", data |-> EmptyMap]
    /\ result = NoResult

Next ==
    \/ ensureCertificateValid_call
    \/ ensureCertificateValid_readFileDone
    \/ ensureCertificateValid_findIdentitiesDone
    \/ resolveExportMethod_call
    \/ buildIPA_call
    \/ buildIPA_exportDone
    \/ resignIPA_call
    \/ resignIPA_cpDone
    \/ resignIPA_resignDone
    \/ createEntitlementsFile_call
    \/ createEntitlementsFile_globDone
    \/ createEntitlementsFile_readFileDone
    \/ createEntitlementsFile_writeBuiltDone
    \/ createEntitlementsFile_plistBuddyDone
    \/ createEntitlementsFile_writeReformattedDone

Spec == Init /\ [][Next]_vars

----------------------------------------------------------------------------
(* Properties *)

\* number of external operations of the given command started so far
Count(cmd) == Cardinality({i \in DOMAIN calls : calls[i].cmd = cmd})

\* part occurs in text as a contiguous run
Occurs(part, text) ==
    \E i \in 0..Len(text) :
        /\ i + Len(part) <= Len(text)
        /\ \A j \in 1..Len(part) : text[i + j] = part[j]

TransferRuleSet == Range(entitlementTransferRules)

BlacklistSet == Range(blacklistedEntitlementKeys)

\* the merge of createEntitlementsFile has produced its result
Merged == fn = "createEntitlementsFile" /\ "generatedEntitlements" \in DOMAIN local

\* C1: for a profile mapping P and an archive mapping A the keys of the
\* generated entitlements (and of the file written from them) are
\* (keys(P) union (TransferRuleSet intersect keys(A))) minus BlacklistSet.
ThmC1_KeySet ==
    (Merged /\ isMapping(args.plistData.Entitlements)
            /\ isMapping(local.archiveEntitlementsData)) =>
        LET P == DOMAIN args.plistData.Entitlements.props
            A == DOMAIN local.archiveEntitlementsData.props
            expected == (P \cup (TransferRuleSet \cap A)) \ BlacklistSet
        IN  /\ Cardinality(TransferRuleSet) = 13
            /\ Cardinality(BlacklistSet) = 13
            /\ DOMAIN local.generatedEntitlements = expected
            /\ genFile.written => DOMAIN genFile.data = expected

\* a blacklisted transfer key of the archive is dropped, an unrelated archive
\* key would not be introduced, a profile key survives
WitC1_BlacklistWins ==
    /\ Merged
    /\ genFile.written
    /\ isMapping(args.plistData.Entitlements)
    /\ isMapping(local.archiveEntitlementsData)
    /\ DOMAIN local.archiveEntitlementsData.props = {"inter-app-audio"}
    /\ DOMAIN args.plistData.Entitlements.props = {"get-task-allow"}
    /\ DOMAIN genFile.data = {"get-task-allow"}

\* C2: every surviving key that is a transfer rule present in the archive
\* carries the archive's value; every other surviving key carries the
\* profile's value.
ThmC2_Values ==
    (Merged /\ isMapping(args.plistData.Entitlements)
            /\ isMapping(local.archiveEntitlementsData)) =>
        LET P == args.plistData.Entitlements.props
            A == local.archiveEntitlementsData.props
            G == local.generatedEntitlements
        IN  \A k \in DOMAIN G :
                IF k \in TransferRuleSet /\ k \in DOMAIN A
                THEN G[k] = A[k]
                ELSE k \in DOMAIN P /\ G[k] = P[k]

\* the profile and the archive disagree on a transfer key: the archive wins
WitC2_ArchiveOverrides ==
    /\ Merged
    /\ isMapping(args.plistData.Entitlements)
    /\ isMapping(local.archiveEntitlementsData)
    /\ "keychain-access-groups" \in DOMAIN args.plistData.Entitlements.props
    /\ "keychain-access-groups" \in DOMAIN local.archiveEntitlementsData.props
    /\ args.plistData.Entitlements.props["keychain-access-groups"] = "v1"
    /\ local.archiveEntitlementsData.props["keychain-access-groups"] = "v2"
    /\ local.generatedEntitlements["keychain-access-groups"] = "v2"

\* the identity lookup of ensureCertificateValid has returned its listing
LookupReturned ==
    /\ fn = "ensureCertificateValid"
    /\ pc = "done"
    /\ Len(settled) = 2
    /\ settled[2] = "ok"

\* C3: once the lookup has returned, ensureCertificateValid returns the
\* fingerprint iff the fingerprint occurs in the listing; otherwise it throws
\* an error whose message contains the fingerprint and the whole listing.
ThmC3_ValidIffListed ==
    LookupReturned =>
        /\ (result.kind = "return") <=> Occurs(local.fingerprint, local.identities)
        /\ result.kind = "return" => result.value = local.fingerprint
        /\ result.kind # "return" =>
              /\ result.kind = "throw"
              /\ Occurs(local.fingerprint, result.value)
              /\ Occurs(local.identities, result.value)

\* the fingerprint is found inside a longer listing
WitC3_FoundInsideListing ==
    /\ LookupReturned
    /\ result.kind = "return"
    /\ Len(local.identities) > Len(local.fingerprint)
    /\ Head(local.identities) = "a"

\* an empty listing is answered by the not-present error
WitC3_EmptyListing ==
    /\ LookupReturned
    /\ local.identities = <<>>
    /\ result = Throw(notPresentMessage(local.fingerprint, <<>>))

Resolved == fn = "resolveExportMethod" /\ pc = "done"

\* C4 as stated, for a profile whose ProvisionedDevices is absent or a list:
\* 'ad-hoc' exactly for a non-empty list; an empty list falls through.
OrigC4_AdHocIffNonEmptyList ==
    (Resolved /\ args.plistData.ProvisionedDevices.type \in {"undefined", "array"}) =>
        ((result.value = "ad-hoc") <=>
            (/\ args.plistData.ProvisionedDevices.type = "array"
             /\ args.plistData.ProvisionedDevices.n > 0))

\* the values JavaScript treats as false
FalsyValues ==
    {Undefined, JsValue("null", 0), JsValue("boolean", 0), JsValue("number", 0),
     JsValue("string", 0)}

\* C4, amended: 'ad-hoc' exactly when ProvisionedDevices is not a falsy value;
\* every list, the empty one included, resolves to 'ad-hoc'.
ThmC4_AdHocIffTruthy ==
    Resolved =>
        /\ (result.value = "ad-hoc") <=>
               (args.plistData.ProvisionedDevices \notin FalsyValues)
        /\ args.plistData.ProvisionedDevices.type = "array" =>
               result.value = "ad-hoc"

\* an empty list of devices, with the all-devices flag set, is 'ad-hoc'
WitC4_EmptyListIsAdHoc ==
    /\ Resolved
    /\ args.plistData.ProvisionedDevices = JsValue("array", 0)
    /\ args.plistData.ProvisionsAllDevices = JsValue("boolean", 1)
    /\ result.value = "ad-hoc"

\* C5: the result is one of the three methods; when rule 1 does not fire it is
\* 'enterprise' only for the boolean true and 'app-store' in every other case.
ThmC5_TotalAndExact ==
    Resolved =>
        /\ result.kind = "return"
        /\ result.value \in {"ad-hoc", "enterprise", "app-store"}
        /\ result.value = "enterprise" =>
               args.plistData.ProvisionsAllDevices = JsValue("boolean", 1)
        /\ result.value # "ad-hoc" =>
               IF args.plistData.ProvisionsAllDevices = JsValue("boolean", 1)
               THEN result.value = "enterprise"
               ELSE result.value = "app-store"
        /\ (/\ args.plistData.ProvisionedDevices = Undefined
            /\ args.plistData.ProvisionsAllDevices = Undefined) =>
               result.value = "app-store"

\* a truthy flag that is not the boolean true resolves to 'app-store'
WitC5_TruthyIsNotTrue ==
    /\ Resolved
    /\ args.plistData.ProvisionedDevices = Undefined
    /\ args.plistData.ProvisionsAllDevices = JsValue("string", 1)
    /\ result.value = "app-store"

\* C6 as stated (whatever the name of the error): when the profile
\* entitlements or the parsed archive entitlements are not a mapping, the
\* merge fails, no mapping is produced and no entitlements file is written.
OrigC6_MalformedInputFails ==
    (/\ fn = "createEntitlementsFile"
     /\ "archiveEntitlementsData" \in DOMAIN local
     /\ \/ ~isMapping(args.plistData.Entitlements)
        \/ ~isMapping(local.archiveEntitlementsData)) =>
        /\ pc = "done"
        /\ result.kind = "throw"
        /\ ~genFile.written
        /\ "generatedEntitlements" \notin DOMAIN local

\* createEntitlementsFile ended with the given error and left no trace
FailedUnwritten(msg) ==
    /\ pc = "done"
    /\ result = Throw(msg)
    /\ ~genFile.written
    /\ Count("fs.writeFile") = 0
    /\ Count("/usr/libexec/PlistBuddy") = 0

\* C7: the merge is reached only with exactly one match whose content parses;
\* zero matches, several matches and a parse failure end in three different
\* errors, the generated file unwritten and PlistBuddy not invoked.
ThmC7_ExactlyOneParsable ==
    fn = "createEntitlementsFile" =>
        /\ "archiveEntitlementsData" \in DOMAIN local =>
              /\ Len(local.entitlementsPaths) = 1
              /\ local.archiveEntitlementsRaw.wellFormed
        /\ (Count("fs.writeFile") > 0 \/ Count("/usr/libexec/PlistBuddy") > 0
                \/ genFile.written) =>
              "archiveEntitlementsData" \in DOMAIN local
        /\ ("entitlementsPaths" \in DOMAIN local
                /\ Len(local.entitlementsPaths) = 0) =>
              FailedUnwritten(MsgNotFound)
        /\ ("entitlementsPaths" \in DOMAIN local
                /\ Len(local.entitlementsPaths) > 1) =>
              FailedUnwritten(MsgMoreThanOne)
        /\ ("archiveEntitlementsRaw" \in DOMAIN local
                /\ ~local.archiveEntitlementsRaw.wellFormed) =>
              FailedUnwritten(MsgParse)
        /\ MsgNotFound # MsgMoreThanOne
        /\ MsgNotFound # MsgParse
        /\ MsgMoreThanOne # MsgParse

\* two files match the pattern: the call ends in the ambiguity error
WitC7_Ambiguous ==
    /\ fn = "createEntitlementsFile"
    /\ "entitlementsPaths" \in DOMAIN local
    /\ Len(local.entitlementsPaths) = 2
    /\ FailedUnwritten(MsgMoreThanOne)

\* the password genCertFingerprint unwraps the container with
PasswordUsed ==
    IF args.certPassword.type = "undefined" THEN "" ELSE args.certPassword.str

\* the certificate was read but no fingerprint can be computed from it
FingerprintFails ==
    /\ "certData" \in DOMAIN local
    /\ \/ ~local.certData.wellFormed
       \/ local.certData.password # PasswordUsed
       \/ Len(local.certData.certBags) = 0

\* C8: the identity lookup is started at most once and only after the
\* fingerprint is computed; when the read or the fingerprint fails the call
\* ends in that error with no lookup; nothing is started twice.
ThmC8_LookupOnceAfterFingerprint ==
    fn = "ensureCertificateValid" =>
        /\ Count("security") <= 1
        /\ Count("fs.readFile") = 1
        /\ Len(calls) <= 2
        /\ Count("security") = 1 =>
              /\ calls[2].cmd = "security"
              /\ settled[1] = "ok"
              /\ "fingerprint" \in DOMAIN local
              /\ ~FingerprintFails
        /\ (Len(settled) >= 1 /\ settled[1] = "error") =>
              /\ Count("security") = 0
              /\ result = Throw(MsgReadFile)
        /\ FingerprintFails =>
              /\ Count("security") = 0
              /\ pc = "done"
              /\ result.kind = "throw"
              /\ result.value \in {MsgDecode, MsgNoCertBag}

\* a container without certificate bag: the call ends without any lookup
WitC8_NoCertBagNoLookup ==
    /\ fn = "ensureCertificateValid"
    /\ pc = "done"
    /\ "certData" \in DOMAIN local
    /\ local.certData.wellFormed
    /\ local.certData.password = PasswordUsed
    /\ local.certData.certBags = <<>>
    /\ result = Throw(MsgNoCertBag)
    /\ Count("security") = 0

\* C9 as stated: a finished buildIPA has run exactly one export tool:
\* xcodebuild -exportArchive towards the directory of ipaPath when client is
\* true, fastlane gym otherwise.
OrigC9_OneToolByClientFlag ==
    (fn = "buildIPA" /\ pc = "done") =>
        /\ Len(calls) = 1
        /\ IF args.client
           THEN /\ calls[1] = xcodebuildCall(dirname(args.ipaPath))
                /\ Count("fastlane") = 0
           ELSE /\ calls[1].cmd = "fastlane"
                /\ calls[1].argv[1] = Word("gym")
                /\ Count("xcodebuild") = 0

\* C10: resignIPA starts with the copy of the source to the destination; the
\* resigning tool is started only after the copy succeeded, with the
\* destination as its target and without the source path; a failed copy ends
\* the call without the resigning tool.
ThmC10_CopyBeforeResign ==
    fn = "resignIPA" =>
        /\ Len(calls) >= 1
        /\ calls[1] = cpCall(args.sourceIpaPath, args.destIpaPath)
        /\ Count("cp") = 1
        /\ \A i \in DOMAIN calls :
              calls[i].cmd = "fastlane" =>
                 /\ i = 2
                 /\ settled[1] = "ok"
                 /\ calls[i].argv[2] = Word("resign")
                 /\ calls[i].argv[Len(calls[i].argv)] = args.destIpaPath
                 /\ \A a \in DOMAIN calls[i].argv :
                        calls[i].argv[a] # args.sourceIpaPath
        /\ (Len(settled) >= 1 /\ settled[1] = "error") =>
              /\ Count("fastlane") = 0
              /\ pc = "done"
              /\ result.kind = "throw"

\* the copy succeeded and the resigning tool ran on the destination
WitC10_Resigned ==
    /\ fn = "resignIPA"
    /\ pc = "done"
    /\ settled = <<"ok", "ok">>
    /\ Len(calls) = 2
    /\ calls[2].cmd = "fastlane"
    /\ result.kind = "return"

====
